---- MODULE Spec2Model ----
(***************************************************************************)
(* Agent performance dashboard (src/src/AgentPerformanceDashboard.tsx):    *)
(* the upload handler, the selectors, the Try Again button and the         *)
(* agentMetrics derivation (filter, aggregation, per-agent scores, tier,   *)
(* sort, workforce summary).                                               *)
(*                                                                         *)
(* JavaScript numbers are modelled as exact rationals <<n, d>> (d > 0,     *)
(* lowest terms), with NaN == <<0, 0>> and +-Infinity == <<+-1, 0>>.       *)
(* A nullable value (data, error, the agentMetrics memo, an agent cell)    *)
(* is a sequence of length 0 (null) or 1 (the value).                      *)
(* tierCall is a call of calculatePerformanceTier taken on its own: its    *)
(* arguments and, once it has returned, its result.                        *)
(***************************************************************************)
EXTENDS Integers, Sequences, FiniteSets, TLC

VARIABLES data, selectedQueue, selectedMediaType, selectedAgent,
          isLoading, error, sortBy, inFlight, tierCall

vars == <<data, selectedQueue, selectedMediaType, selectedAgent,
          isLoading, error, sortBy, inFlight, tierCall>>

null == <<>>

Some(v) == <<v>>

(***************************************************************************)
(* Bounds of the model.                                                    *)
(***************************************************************************)
\* longest file whose rows are drawn freely from RowDomain
MaxRows == 2

\* longest run of one repeated row in a bulk file
MaxBulk == 25

\* longest file of the upload specification
MaxUploadRows == 1

\* most uploads in flight at once
MaxInFlight == 2

(***************************************************************************)
(* JavaScript number arithmetic on exact fractions in lowest terms; common *)
(* factors are cancelled before multiplying.                               *)
(***************************************************************************)
Abs(i) == IF i < 0 THEN -i ELSE i

Sign(i) == IF i < 0 THEN -1 ELSE IF i > 0 THEN 1 ELSE 0

RECURSIVE GCD(_, _)
GCD(a, b) == IF b = 0 THEN a ELSE GCD(b, a % b)

NaN == <<0, 0>>

IsNaN(x) == x = NaN

IsFinite(x) == x[2] # 0

\* the number n/d for integers n, d (JavaScript's n / d)
Frac(n, d) ==
    IF d = 0 THEN <<Sign(n), 0>>
    ELSE LET g == GCD(Abs(n), Abs(d))
             s == IF d < 0 THEN -1 ELSE 1
         IN  <<(s * n) \div g, (s * d) \div g>>

Num(i) == <<i, 1>>

Add(x, y) ==
    IF IsNaN(x) \/ IsNaN(y) THEN NaN
    ELSE IF ~IsFinite(x) /\ ~IsFinite(y)
         THEN (IF x = y THEN x ELSE NaN)
    ELSE IF ~IsFinite(x) THEN x
    ELSE IF ~IsFinite(y) THEN y
    ELSE LET g == GCD(x[2], y[2])
         IN  Frac(x[1] * (y[2] \div g) + y[1] * (x[2] \div g),
                  (x[2] \div g) * y[2])

Neg(x) == <<-x[1], x[2]>>

Sub(x, y) == Add(x, Neg(y))

Mul(x, y) ==
    IF IsNaN(x) \/ IsNaN(y) THEN NaN
    ELSE IF ~IsFinite(x) \/ ~IsFinite(y)
         THEN <<Sign(x[1]) * Sign(y[1]), 0>>
    ELSE LET g == GCD(Abs(x[1]), y[2])
             h == GCD(Abs(y[1]), x[2])
         IN  Frac((x[1] \div g) * (y[1] \div h),
                  (x[2] \div h) * (y[2] \div g))

Div(x, y) ==
    IF IsNaN(x) \/ IsNaN(y) THEN NaN
    ELSE IF ~IsFinite(y)
         THEN (IF IsFinite(x) THEN Num(0) ELSE NaN)
    ELSE IF ~IsFinite(x)
         THEN <<Sign(x[1]) * (IF y[1] < 0 THEN -1 ELSE 1), 0>>
    ELSE IF y[1] = 0 THEN <<Sign(x[1]), 0>>
    ELSE LET g == GCD(Abs(x[1]), Abs(y[1]))
             h == GCD(x[2], y[2])
         IN  Frac((x[1] \div g) * (y[2] \div h),
                  (x[2] \div h) * (y[1] \div g))

\* x > y, false when either side is NaN
Gt(x, y) ==
    /\ ~IsNaN(x)
    /\ ~IsNaN(y)
    /\ IF IsFinite(x) /\ IsFinite(y)
       THEN LET g == GCD(x[2], y[2])
            IN  x[1] * (y[2] \div g) > y[1] * (x[2] \div g)
       ELSE IF IsFinite(y) THEN x[1] > 0
       ELSE IF IsFinite(x) THEN y[1] < 0
       ELSE x[1] > y[1]

Ge(x, y) == Gt(x, y) \/ (~IsNaN(x) /\ x = y)

Lt(x, y) == Gt(y, x)

\* Math.min(x, y)
Min(x, y) ==
    IF IsNaN(x) \/ IsNaN(y) THEN NaN ELSE IF Lt(y, x) THEN y ELSE x

\* Math.round(x): the nearest integer, halves rounded towards +Infinity
Round(x) ==
    IF ~IsFinite(x) THEN x
    ELSE Num((2 * x[1] + x[2]) \div (2 * x[2]))

\* x.toFixed(1), read back as a number: one decimal, halves away from zero
ToFixed1(x) ==
    IF ~IsFinite(x) THEN x
    ELSE LET m == (2 * 10 * Abs(x[1]) + x[2]) \div (2 * x[2])
         IN  Frac(Sign(x[1]) * m, 10)

(***************************************************************************)
(* IEEE 754 binary64 arithmetic, for the one sum the code takes over the   *)
(* sorted list in floating point (avgUtilization).  A magnitude is a       *)
(* natural number below 2^69 held in three 23-bit limbs <<a, b, c>>, most  *)
(* significant first; a double below 2^11 that is a multiple of 2^-57 is   *)
(* <<sign, magnitude>> counting units of 2^-57.                            *)
(***************************************************************************)
BigOf(i) == <<0, 0, i>>

BigZero == BigOf(0)

\* carries the excess of each limb into the next
BigNorm(a, b, c) ==
    LET b1 == b + c \div 2^23
    IN  <<a + b1 \div 2^23, b1 % 2^23, c % 2^23>>

BigAdd(X, Y) == BigNorm(X[1] + Y[1], X[2] + Y[2], X[3] + Y[3])

BigLess(X, Y) ==
    \/ X[1] < Y[1]
    \/ X[1] = Y[1] /\ X[2] < Y[2]
    \/ X[1] = Y[1] /\ X[2] = Y[2] /\ X[3] < Y[3]

\* X - Y for X >= Y
BigSub(X, Y) ==
    LET c == X[3] - Y[3]
        bc == IF c < 0 THEN 1 ELSE 0
        b == X[2] - Y[2] - bc
        bb == IF b < 0 THEN 1 ELSE 0
    IN  <<X[1] - Y[1] - bb, b + bb * 2^23, c + bc * 2^23>>

\* X * k for a small k
BigMulSmall(X, k) == BigNorm(X[1] * k, X[2] * k, X[3] * k)

\* <<quotient, remainder>> of X by a small n
BigDivSmall(X, n) ==
    LET ra == X[1] % n
        nb == ra * 2^23 + X[2]
        rb == nb % n
        nc == rb * 2^23 + X[3]
    IN  <<(<<X[1] \div n, nb \div n, nc \div n>>), nc % n>>

LimbLen(x) == CHOOSE k \in 0..23 : x < 2^k /\ (k = 0 \/ x >= 2^(k - 1))

\* the number of significant bits of X
BitLen(X) ==
    IF X[1] > 0 THEN 46 + LimbLen(X[1])
    ELSE IF X[2] > 0 THEN 23 + LimbLen(X[2])
    ELSE LimbLen(X[3])

\* X * 2^s, the result below 2^69
ShiftLeft(X, s) ==
    LET r == s % 23
        w == s \div 23
        lo(x) == (x % 2^(23 - r)) * 2^r
        hi(x) == x \div 2^(23 - r)
        Y == <<lo(X[1]) + hi(X[2]), lo(X[2]) + hi(X[3]), lo(X[3])>>
    IN  CASE w = 0 -> Y
          [] w = 1 -> <<Y[2], Y[3], 0>>
          [] w = 2 -> <<Y[3], 0, 0>>
          [] OTHER -> BigZero

\* X \div 2^s
ShiftRight(X, s) ==
    LET r == s % 23
        w == s \div 23
        lo(x) == (x % 2^r) * 2^(23 - r)
        hi(x) == x \div 2^r
        Y == <<hi(X[1]), lo(X[1]) + hi(X[2]), lo(X[2]) + hi(X[3])>>
    IN  CASE w = 0 -> Y
          [] w = 1 -> <<0, Y[1], Y[2]>>
          [] w = 2 -> <<0, 0, Y[1]>>
          [] OTHER -> BigZero

IsOdd(X) == X[3] % 2 = 1

\* <<m, e>>: X * 2^-e lost its bits below the 53rd, m the nearest 53-bit
\* significand, ties to even; sticky says that X itself was cut short
RoundSignificand(X, sticky) ==
    LET drop == BitLen(X) - 53 IN
    IF drop <= 0 THEN <<X, 0>>
    ELSE LET q == ShiftRight(X, drop)
             r == BigSub(X, ShiftLeft(q, drop))
             half == ShiftLeft(BigOf(1), drop - 1)
             up == \/ BigLess(half, r)
                   \/ r = half /\ (sticky \/ IsOdd(q))
         IN  <<IF up THEN BigAdd(q, BigOf(1)) ELSE q, drop>>

\* the double nearest to X, for X in units of 2^-57
RoundToDouble(X) ==
    LET m == RoundSignificand(X, FALSE) IN ShiftLeft(m[1], m[2])

\* <<m, e>>: m * 2^e is the double nearest to X / n
RoundQuotient(X, n) ==
    IF X = BigZero THEN <<BigZero, 0>>
    ELSE LET s == 68 - BitLen(X)
             d == BigDivSmall(ShiftLeft(X, s), n)
             m == RoundSignificand(d[1], d[2] > 0)
         IN  <<m[1], m[2] - s>>

\* parseFloat of the decimal string of tenths / 10
parseFloat(tenths) ==
    LET m == RoundQuotient(BigOf(Abs(tenths)), 10)
    IN  <<IF tenths < 0 THEN -1 ELSE 1, ShiftLeft(m[1], m[2] + 57)>>

\* sum + x of two doubles
FloatAdd(x, y) ==
    IF x[1] = y[1] THEN <<x[1], RoundToDouble(BigAdd(x[2], y[2]))>>
    ELSE IF BigLess(x[2], y[2])
         THEN <<y[1], RoundToDouble(BigSub(y[2], x[2]))>>
    ELSE <<x[1], RoundToDouble(BigSub(x[2], y[2]))>>

\* (x / n).toFixed(1) in tenths, for a double x and a positive integer n:
\* the integer t with t / 10 nearest to the double x / n, halves away
\* from zero
FloatMeanToFixed1(x, n) ==
    LET m == RoundQuotient(x[2], n)
        e == 57 - m[2]
        tenfold == BigMulSmall(m[1], 10)
        t == IF e > 58 THEN 0
             ELSE ShiftRight(BigAdd(tenfold, ShiftLeft(BigOf(1), e - 1)), e)[3]
    IN  x[1] * t

\* the number of tenths in a value that toFixed(1) produced
TenthsOf(x) == x[1] * (10 \div x[2])

\* agents.reduce((sum, a) => sum + parseFloat(a.utilizationRate), 0), from
\* the i-th agent of the list on, in the order of the list
RECURSIVE utilizationSum(_, _, _)
utilizationSum(agents, i, sum) ==
    IF i > Len(agents) THEN sum
    ELSE utilizationSum(agents, i + 1,
             FloatAdd(sum, parseFloat(TenthsOf(agents[i].utilizationRate))))

(***************************************************************************)
(* Rows as Papa.parse (header: true, dynamicTyping: true) returns them.    *)
(* Queue, Media Type and Users - Interacted are strings, "" standing for   *)
(* an absent cell (the parser turns an empty cell into null; both are      *)
(* falsy).  The other cells carry the type the parser gave them.  A Date   *)
(* string is its part before the first space (day) and the rest (time).    *)
(***************************************************************************)
NumCell(n) == [type |-> "number", num |-> n, str |-> ""]

StrCell(s) == [type |-> "string", num |-> 0, str |-> s]

BoolCell(b) == [type |-> "boolean", num |-> (IF b THEN 1 ELSE 0), str |-> ""]

NullCell == [type |-> "null", num |-> 0, str |-> ""]

DateCell(d, t) == [type |-> "string", num |-> 0, day |-> d, time |-> t]

NumDate(n) == [type |-> "number", num |-> n, day |-> "", time |-> ""]

NoDate == [type |-> "null", num |-> 0, day |-> "", time |-> ""]

\* JavaScript truthiness of a cell
Truthy(c) ==
    CASE c.type = "number"  -> c.num # 0
      [] c.type = "boolean" -> c.num = 1
      [] c.type = "string"  -> c.str # ""
      [] OTHER              -> FALSE

\* truthiness of a Date cell (a string date is never empty here)
TruthyDate(c) ==
    CASE c.type = "number" -> c.num # 0
      [] c.type = "string" -> c.day # "" \/ c.time # ""
      [] OTHER             -> FALSE

Row(q, m, a, ab, h, qt, d) ==
    [Queue |-> q, MediaType |-> m, Agent |-> a, Abandoned |-> ab,
     TotalHandle |-> h, TotalQueue |-> qt, Date |-> d]

(***************************************************************************)
(* Sequence helpers.                                                       *)
(***************************************************************************)
RECURSIVE Repeat(_, _)
Repeat(r, n) == IF n = 0 THEN <<>> ELSE <<r>> \o Repeat(r, n - 1)

Range(s) == {s[i] : i \in DOMAIN s}

\* Array.prototype.reduce((sum, x) => sum + x, 0) over a list of numbers
RECURSIVE SumSeq(_)
SumSeq(s) == IF s = <<>> THEN Num(0) ELSE Add(SumSeq(SubSeq(s, 1, Len(s) - 1)), s[Len(s)])

\* Array.prototype.map
Map(s, f(_)) == [i \in DOMAIN s |-> f(s[i])]

(***************************************************************************)
(* handleFileUpload: the cleaning of the parsed rows.                      *)
(***************************************************************************)
\* cleanedData testing the queue alone
cleanedDataQueueOnly(rows) == SelectSeq(rows, LAMBDA row : row.Queue # "")

\* result.data.filter(row => row.Queue && row['Media Type'])
cleanedData(rows) ==
    SelectSeq(rows, LAMBDA row : row.Queue # "" /\ row.MediaType # "")

(***************************************************************************)
(* agentMetrics: the filter stage.                                         *)
(***************************************************************************)
\* filteredData with the agent filter applied to the unfiltered rows
filteredDataLastWins(rows, q, m, a) ==
    LET byQueue == IF q # "all"
                   THEN SelectSeq(rows, LAMBDA row : row.Queue = q)
                   ELSE rows
        byMedia == IF m # "all"
                   THEN SelectSeq(byQueue, LAMBDA row : row.MediaType = m)
                   ELSE byQueue
    IN  IF a # "all"
        THEN SelectSeq(rows, LAMBDA row : row.Agent = a)
        ELSE byMedia

filteredData(rows, q, m, a) ==
    LET byQueue == IF q # "all"
                   THEN SelectSeq(rows, LAMBDA row : row.Queue = q)
                   ELSE rows
        byMedia == IF m # "all"
                   THEN SelectSeq(byQueue, LAMBDA row : row.MediaType = m)
                   ELSE byQueue
    IN  IF a # "all"
        THEN SelectSeq(byMedia, LAMBDA row : row.Agent = a)
        ELSE byMedia

(***************************************************************************)
(* agentMetrics: the aggregation (filteredData.forEach).  agentStats is    *)
(* the object's keys in insertion order, with the value of keys[i] at      *)
(* stats[i]; threw records the                                             *)
(* TypeError of row.Date.split on a truthy Date that is not a string.      *)
(***************************************************************************)
newAgentStats(agent) ==
    [name |-> agent,
     totalInteractions |-> 0,
     handledInteractions |-> 0,
     abandonedWhileAssigned |-> 0,
     totalHandleTime |-> Num(0),
     totalQueueTime |-> Num(0),
     queues |-> {},
     mediaTypes |-> {},
     handleTimes |-> <<>>,
     dates |-> {}]

\* normaliseDuration scaling from 10000 on
normaliseFromTenThousand(d) == IF d >= 10000 THEN Frac(d, 1000) ELSE Num(d)

\* d > 10000 ? d / 1000 : d
normaliseDuration(d) == IF d > 10000 THEN Frac(d, 1000) ELSE Num(d)

\* typeof cell === 'number' and the cell is truthy
IsNumeric(c) == Truthy(c) /\ c.type = "number"

\* IsAbandoned comparing without regard to case
IsAbandonedAnyCase(row) ==
    row.Abandoned.type = "string" /\ row.Abandoned.str \in {"YES", "yes"}

\* row.Abandoned === 'YES'
IsAbandoned(row) == row.Abandoned.type = "string" /\ row.Abandoned.str = "YES"

\* HasAgent without the test for the string 'null'
HasAgentNotEmpty(row) == row.Agent # ""

\* not (!agent || agent === '' || agent === 'null')
HasAgent(row) == row.Agent # "" /\ row.Agent # "null"

\* row.Date is truthy and has no split method
DateThrows(row) == TruthyDate(row.Date) /\ row.Date.type # "string"

\* accumulateRow counting a row as handled only when it has a handle time
accumulateRowHandledIfTimed(acc, row) ==
    LET agent == row.Agent IN
    IF acc.threw \/ ~HasAgent(row) THEN acc
    ELSE
    LET known == agent \in Range(acc.keys)
        at == CHOOSE i \in DOMAIN acc.keys : acc.keys[i] = agent
        s0 == IF known THEN acc.stats[at] ELSE newAgentStats(agent)
        s1 == [s0 EXCEPT !.totalInteractions = @ + 1]
        s2 == IF IsAbandoned(row)
              THEN [s1 EXCEPT !.abandonedWhileAssigned = @ + 1]
              ELSE IF IsNumeric(row.TotalHandle)
                   THEN [s1 EXCEPT
                           !.handledInteractions = @ + 1,
                           !.totalHandleTime =
                               Add(@, normaliseDuration(row.TotalHandle.num)),
                           !.handleTimes =
                               Append(@, normaliseDuration(row.TotalHandle.num))]
                   ELSE s1
        s3 == IF IsNumeric(row.TotalQueue)
              THEN [s2 EXCEPT !.totalQueueTime =
                                  Add(@, normaliseDuration(row.TotalQueue.num))]
              ELSE s2
        s4 == IF row.Queue # ""
              THEN [s3 EXCEPT !.queues = @ \cup {row.Queue}]
              ELSE s3
        s5 == IF row.MediaType # ""
              THEN [s4 EXCEPT !.mediaTypes = @ \cup {row.MediaType}]
              ELSE s4
        s6 == IF TruthyDate(row.Date) /\ row.Date.type = "string"
              THEN [s5 EXCEPT !.dates = @ \cup {row.Date.day}]
              ELSE s5
    IN  [keys  |-> IF known THEN acc.keys ELSE Append(acc.keys, agent),
         stats |-> IF known THEN [acc.stats EXCEPT ![at] = s6]
                   ELSE Append(acc.stats, s6),
         threw |-> DateThrows(row)]

accumulateRow(acc, row) ==
    LET agent == row.Agent IN
    IF acc.threw \/ ~HasAgent(row) THEN acc
    ELSE
    LET known == agent \in Range(acc.keys)
        at == CHOOSE i \in DOMAIN acc.keys : acc.keys[i] = agent
        s0 == IF known THEN acc.stats[at] ELSE newAgentStats(agent)
        s1 == [s0 EXCEPT !.totalInteractions = @ + 1]
        s2 == IF IsAbandoned(row)
              THEN [s1 EXCEPT !.abandonedWhileAssigned = @ + 1]
              ELSE IF IsNumeric(row.TotalHandle)
                   THEN [s1 EXCEPT
                           !.handledInteractions = @ + 1,
                           !.totalHandleTime =
                               Add(@, normaliseDuration(row.TotalHandle.num)),
                           !.handleTimes =
                               Append(@, normaliseDuration(row.TotalHandle.num))]
                   ELSE [s1 EXCEPT !.handledInteractions = @ + 1]
        s3 == IF IsNumeric(row.TotalQueue)
              THEN [s2 EXCEPT !.totalQueueTime =
                                  Add(@, normaliseDuration(row.TotalQueue.num))]
              ELSE s2
        s4 == IF row.Queue # ""
              THEN [s3 EXCEPT !.queues = @ \cup {row.Queue}]
              ELSE s3
        s5 == IF row.MediaType # ""
              THEN [s4 EXCEPT !.mediaTypes = @ \cup {row.MediaType}]
              ELSE s4
        s6 == IF TruthyDate(row.Date) /\ row.Date.type = "string"
              THEN [s5 EXCEPT !.dates = @ \cup {row.Date.day}]
              ELSE s5
    IN  [keys  |-> IF known THEN acc.keys ELSE Append(acc.keys, agent),
         stats |-> IF known THEN [acc.stats EXCEPT ![at] = s6]
                   ELSE Append(acc.stats, s6),
         threw |-> DateThrows(row)]

RECURSIVE aggregateFrom(_, _, _)
aggregateFrom(rows, i, acc) ==
    IF acc.threw \/ i > Len(rows) THEN acc
    ELSE aggregateFrom(rows, i + 1, accumulateRow(acc, rows[i]))

agentStats(rows) ==
    aggregateFrom(rows, 1, [keys |-> <<>>, stats |-> <<>>, threw |-> FALSE])

\* Object.values(agentStats): the values in insertion order
allAgentsOf(st) == st.stats

(***************************************************************************)
(* agentMetrics: the derivation of the per-agent scores.                   *)
(***************************************************************************)
\* agent.handledInteractions > 0 ? agent.totalHandleTime / agent.handledInteractions : 0
avgHandleTimeOf(agent) ==
    IF agent.handledInteractions > 0
    THEN Div(agent.totalHandleTime, Num(agent.handledInteractions))
    ELSE Num(0)

\* teamAvgHandleTimeOf dividing by the number of all agents
teamAvgOverAllAgents(allAgents) ==
    Div(SumSeq(Map(allAgents, avgHandleTimeOf)), Num(Len(allAgents)))

teamAvgHandleTimeOf(allAgents) ==
    Div(SumSeq(Map(allAgents, avgHandleTimeOf)),
        Num(Len(SelectSeq(allAgents, LAMBDA a : a.handledInteractions > 0))))

\* new Set(data.map(row => row.Queue).filter(q => q)).size
totalQueuesOf(rows) == Cardinality({rows[i].Queue : i \in DOMAIN rows} \ {""})

\* efficiencyScoreOf without the test of the agent's own average
efficiencyUnguarded(avgHandleTime, teamAvgHandleTime) ==
    IF Gt(teamAvgHandleTime, Num(0))
    THEN Round(Sub(Num(100),
                   Mul(Div(Sub(avgHandleTime, teamAvgHandleTime),
                           teamAvgHandleTime),
                       Num(100))))
    ELSE Num(100)

\* efficiencyScoreOf as the deviation from the team average (0 at parity)
efficiencyDeviation(avgHandleTime, teamAvgHandleTime) ==
    IF Gt(teamAvgHandleTime, Num(0)) /\ Gt(avgHandleTime, Num(0))
    THEN Round(Mul(Div(Sub(teamAvgHandleTime, avgHandleTime),
                       teamAvgHandleTime),
                   Num(100)))
    ELSE Num(100)

\* efficiencyScoreOf as the ratio of the team average to the agent's average
efficiencyRatio(avgHandleTime, teamAvgHandleTime) ==
    IF Gt(teamAvgHandleTime, Num(0)) /\ Gt(avgHandleTime, Num(0))
    THEN Round(Mul(Div(teamAvgHandleTime, avgHandleTime), Num(100)))
    ELSE Num(100)

\* efficiencyScoreOf with a floor at 0
efficiencyScoreFloored(avgHandleTime, teamAvgHandleTime) ==
    IF Gt(teamAvgHandleTime, Num(0)) /\ Gt(avgHandleTime, Num(0))
    THEN LET score == Round(Sub(Num(100),
                                Mul(Div(Sub(avgHandleTime, teamAvgHandleTime),
                                        teamAvgHandleTime),
                                    Num(100))))
         IN  IF Lt(score, Num(0)) THEN Num(0) ELSE score
    ELSE Num(100)

efficiencyScoreOf(avgHandleTime, teamAvgHandleTime) ==
    IF Gt(teamAvgHandleTime, Num(0)) /\ Gt(avgHandleTime, Num(0))
    THEN Round(Sub(Num(100),
                   Mul(Div(Sub(avgHandleTime, teamAvgHandleTime),
                           teamAvgHandleTime),
                       Num(100))))
    ELSE Num(100)

\* productivityRateOf with the abandoned interactions as the numerator
productivityRateOfAbandoned(agent) ==
    IF agent.totalInteractions > 0
    THEN Mul(Frac(agent.abandonedWhileAssigned, agent.totalInteractions), Num(100))
    ELSE Num(0)

productivityRateOf(agent) ==
    IF agent.totalInteractions > 0
    THEN Mul(Frac(agent.handledInteractions, agent.totalInteractions), Num(100))
    ELSE Num(0)

versatilityScoreOf(agent, totalQueues) ==
    IF totalQueues > 0
    THEN Mul(Frac(Cardinality(agent.queues), totalQueues), Num(100))
    ELSE Num(0)

interactionsPerHourOf(agent) ==
    LET hoursWorked == Div(agent.totalHandleTime, Num(3600))
    IN  IF Gt(hoursWorked, Num(0))
        THEN Div(Num(agent.handledInteractions), hoursWorked)
        ELSE Num(0)

utilizationRateOf(agent) ==
    LET availableSeconds == Cardinality(agent.dates) * 8 * 3600
    IN  IF availableSeconds > 0
        THEN Mul(Div(agent.totalHandleTime, Num(availableSeconds)), Num(100))
        ELSE Num(0)

\* utilizationRateOf reported without the cap
utilizationUncapped(agent) == ToFixed1(utilizationRateOf(agent))

\* Math.min(100, utilizationRate).toFixed(1)
reportedUtilizationOf(agent) ==
    ToFixed1(Min(Num(100), utilizationRateOf(agent)))

\* fewer handled interactions than this: tier 'new'
MinHandled == 10

\* the composite score of calculatePerformanceTier
tierScore(efficiency, productivity, interactions) ==
    Add(Add(Mul(efficiency, Frac(4, 10)), Mul(productivity, Frac(4, 10))),
        Mul(Min(Frac(interactions, 100), Num(1)), Num(20)))

\* calculatePerformanceTier with the minimum off by one
tierMinimumOffByOne(efficiency, productivity, interactions) ==
    IF interactions < MinHandled - 1 THEN "new"
    ELSE
    LET score == tierScore(efficiency, productivity, interactions)
    IN  IF Ge(score, Num(85)) THEN "gold"
        ELSE IF Ge(score, Num(70)) THEN "silver"
        ELSE "bronze"

\* calculatePerformanceTier with strict thresholds
tierStrictThresholds(efficiency, productivity, interactions) ==
    IF interactions < MinHandled THEN "new"
    ELSE
    LET score == tierScore(efficiency, productivity, interactions)
    IN  IF Gt(score, Num(85)) THEN "gold"
        ELSE IF Gt(score, Num(70)) THEN "silver"
        ELSE "bronze"

\* calculatePerformanceTier with the volume share of the score inverted
tierVolumeInverted(efficiency, productivity, interactions) ==
    IF interactions < MinHandled THEN "new"
    ELSE
    LET score == Add(Add(Mul(efficiency, Frac(4, 10)), Mul(productivity, Frac(4, 10))),
                     Mul(Sub(Num(1), Min(Frac(interactions, 100), Num(1))), Num(20)))
    IN  IF Ge(score, Num(85)) THEN "gold"
        ELSE IF Ge(score, Num(70)) THEN "silver"
        ELSE "bronze"

calculatePerformanceTier(efficiency, productivity, interactions) ==
    IF interactions < MinHandled THEN "new"
    ELSE
    LET score == tierScore(efficiency, productivity, interactions)
    IN  IF Ge(score, Num(85)) THEN "gold"
        ELSE IF Ge(score, Num(70)) THEN "silver"
        ELSE "bronze"

\* one element of agents: Object.values(agentStats).map(agent => ...)
agentData(agent, teamAvgHandleTime, totalQueues) ==
    LET avgHandleTime == avgHandleTimeOf(agent)
        efficiencyScore == efficiencyScoreOf(avgHandleTime, teamAvgHandleTime)
        productivityRate == productivityRateOf(agent)
    IN  [name |-> agent.name,
         totalInteractions |-> agent.totalInteractions,
         handledInteractions |-> agent.handledInteractions,
         abandonedWhileAssigned |-> agent.abandonedWhileAssigned,
         avgHandleTime |-> Round(avgHandleTime),
         totalHandleTime |-> Round(agent.totalHandleTime),
         productivityRate |-> ToFixed1(productivityRate),
         efficiencyScore |-> efficiencyScore,
         versatilityScore |-> ToFixed1(versatilityScoreOf(agent, totalQueues)),
         interactionsPerHour |-> ToFixed1(interactionsPerHourOf(agent)),
         utilizationRate |-> reportedUtilizationOf(agent),
         uniqueQueues |-> Cardinality(agent.queues),
         uniqueMediaTypes |-> Cardinality(agent.mediaTypes),
         daysWorked |-> Cardinality(agent.dates),
         queues |-> agent.queues,
         mediaTypes |-> agent.mediaTypes,
         performanceTier |->
             calculatePerformanceTier(efficiencyScore, productivityRate,
                                      agent.handledInteractions)]

\* Object.values(agentStats).map(agent => ...), from element i on
RECURSIVE agentsFrom(_, _, _, _)
agentsFrom(allAgents, i, teamAvgHandleTime, totalQueues) ==
    IF i > Len(allAgents) THEN <<>>
    ELSE <<agentData(allAgents[i], teamAvgHandleTime, totalQueues)>>
             \o agentsFrom(allAgents, i + 1, teamAvgHandleTime, totalQueues)

(***************************************************************************)
(* agentMetrics: agents.sort, a stable sort by the comparator of sortBy.   *)
(***************************************************************************)
\* compareAgents with the handle-time order reversed
compareAgentsSlowestFirst(a, b, key) ==
    CASE key = "handleTime" -> Sub(b.avgHandleTime, a.avgHandleTime)
      [] key = "efficiency" -> Sub(b.efficiencyScore, a.efficiencyScore)
      [] OTHER -> Num(b.totalInteractions - a.totalInteractions)

compareAgents(a, b, key) ==
    CASE key = "handleTime" -> Sub(a.avgHandleTime, b.avgHandleTime)
      [] key = "efficiency" -> Sub(b.efficiencyScore, a.efficiencyScore)
      [] OTHER -> Num(b.totalInteractions - a.totalInteractions)

\* x put before the first element that compares greater than it
RECURSIVE insertAgent(_, _, _)
insertAgent(sorted, x, key) ==
    IF sorted = <<>> THEN <<x>>
    ELSE IF Gt(compareAgents(sorted[1], x, key), Num(0))
         THEN <<x>> \o sorted
         ELSE <<sorted[1]>> \o insertAgent(Tail(sorted), x, key)

RECURSIVE sortAgents(_, _)
sortAgents(agents, key) ==
    IF agents = <<>> THEN <<>>
    ELSE insertAgent(sortAgents(SubSeq(agents, 1, Len(agents) - 1), key),
                     agents[Len(agents)], key)

(***************************************************************************)
(* agentMetrics: the workforce summary.                                    *)
(***************************************************************************)
workforceStatsOf(agents, teamAvgHandleTime) ==
    LET n == Num(Len(agents)) IN
    [totalAgents |-> Len(agents),
     avgInteractionsPerAgent |->
         Round(Div(SumSeq(Map(agents, LAMBDA a : Num(a.totalInteractions))), n)),
     avgHandleTimeOverall |-> Round(teamAvgHandleTime),
     topPerformers |->
         Len(SelectSeq(agents, LAMBDA a : a.performanceTier = "gold")),
     needsCoaching |->
         Len(SelectSeq(agents, LAMBDA a : a.performanceTier = "bronze")),
     avgEfficiency |->
         Round(Div(SumSeq(Map(agents, LAMBDA a : a.efficiencyScore)), n)),
     avgUtilization |->
         IF Len(agents) = 0 THEN NaN
         ELSE Frac(FloatMeanToFixed1(utilizationSum(agents, 1, parseFloat(0)),
                                     Len(agents)), 10)]

(***************************************************************************)
(* agentMetrics: the useMemo body for non-null data.  threw is TRUE when   *)
(* the aggregation throws; the other fields are then meaningless.          *)
(***************************************************************************)
\* computeMetrics counting the queues of the filtered rows
computeMetricsFilteredQueues(rows, q, m, a, key) ==
    LET st == agentStats(filteredData(rows, q, m, a))
        allAgents == allAgentsOf(st)
        teamAvgHandleTime == teamAvgHandleTimeOf(allAgents)
        totalQueues == totalQueuesOf(filteredData(rows, q, m, a))
        agents == sortAgents(
                      agentsFrom(allAgents, 1, teamAvgHandleTime, totalQueues),
                      key)
    IN  IF st.threw
        THEN [threw |-> TRUE, agents |-> <<>>,
              workforceStats |-> workforceStatsOf(<<>>, NaN),
              teamAvgHandleTime |-> NaN]
        ELSE [threw |-> FALSE, agents |-> agents,
              workforceStats |-> workforceStatsOf(agents, teamAvgHandleTime),
              teamAvgHandleTime |-> teamAvgHandleTime]

\* computeMetrics taking the team average over the agents of every row that
\* passes the queue and media-type selectors
computeMetricsTeamOfAllAgents(rows, q, m, a, key) ==
    LET st == agentStats(filteredData(rows, q, m, a))
        allAgents == allAgentsOf(st)
        teamAvgHandleTime ==
            teamAvgHandleTimeOf(allAgentsOf(agentStats(filteredData(rows, q, m, "all"))))
        totalQueues == totalQueuesOf(rows)
        agents == sortAgents(
                      agentsFrom(allAgents, 1, teamAvgHandleTime, totalQueues),
                      key)
    IN  IF st.threw
        THEN [threw |-> TRUE, agents |-> <<>>,
              workforceStats |-> workforceStatsOf(<<>>, NaN),
              teamAvgHandleTime |-> NaN]
        ELSE [threw |-> FALSE, agents |-> agents,
              workforceStats |-> workforceStatsOf(agents, teamAvgHandleTime),
              teamAvgHandleTime |-> teamAvgHandleTime]

computeMetrics(rows, q, m, a, key) ==
    LET st == agentStats(filteredData(rows, q, m, a))
        allAgents == allAgentsOf(st)
        teamAvgHandleTime == teamAvgHandleTimeOf(allAgents)
        totalQueues == totalQueuesOf(rows)
        agents == sortAgents(
                      agentsFrom(allAgents, 1, teamAvgHandleTime, totalQueues),
                      key)
    IN  IF st.threw
        THEN [threw |-> TRUE, agents |-> <<>>,
              workforceStats |-> workforceStatsOf(<<>>, NaN),
              teamAvgHandleTime |-> NaN]
        ELSE [threw |-> FALSE, agents |-> agents,
              workforceStats |-> workforceStatsOf(agents, teamAvgHandleTime),
              teamAvgHandleTime |-> teamAvgHandleTime]

\* the memoised value of the current render
agentMetrics ==
    IF data = null THEN null
    ELSE Some(computeMetrics(data[1], selectedQueue, selectedMediaType,
                             selectedAgent, sortBy))

(***************************************************************************)
(* The option lists of the selectors and the views.                        *)
(***************************************************************************)
uniqueQueues ==
    IF data = null THEN {}
    ELSE {data[1][i].Queue : i \in DOMAIN data[1]} \ {""}

uniqueMediaTypes ==
    IF data = null THEN {}
    ELSE {data[1][i].MediaType : i \in DOMAIN data[1]} \ {""}

uniqueAgents ==
    IF data = null THEN {}
    ELSE {data[1][i].Agent : i \in DOMAIN data[1]} \ {"", "null"}

\* if (error && !data): only the error view, with its Try Again button
ErrorView == error # null /\ data = null

\* an exception of the useMemo body during a render unmounts the component:
\* some row that reaches the aggregation makes row.Date.split throw
Crashed ==
    /\ data # null
    /\ LET rows == filteredData(data[1], selectedQueue, selectedMediaType,
                                selectedAgent)
       IN  \E i \in DOMAIN rows : HasAgent(rows[i]) /\ DateThrows(rows[i])

\* {agentMetrics && (...)}: the selectors and the dashboard are rendered
\* (agentMetrics is null exactly when data is)
MetricsShown == ~ErrorView /\ data # null

\* FileInputEnabled without disabled={isLoading}
FileInputNeverDisabled == ~ErrorView

\* a file input is rendered and not disabled
FileInputEnabled ==
    /\ ~ErrorView
    /\ data # null \/ ~isLoading
    /\ ~isLoading

(***************************************************************************)
(* Files the operator can pick.  A file is readable or not; a readable     *)
(* file parses to rows.                                                    *)
(***************************************************************************)
File(rows) == [readable |-> TRUE, rows |-> rows, message |-> ""]

UnreadableFile == [readable |-> FALSE, rows |-> <<>>, message |-> "NotReadableError"]

ErrorPrefix == "Failed to process uploaded file: "

SeqsUpTo(S, n) == UNION {[1..k -> S] : k \in 0..n}

(***************************************************************************)
(* Input rows.                                                             *)
(***************************************************************************)
No == StrCell("NO")

Yes == StrCell("YES")

Day1 == DateCell("2024-01-01", "09:00")

Day1Late == DateCell("2024-01-01", "17:30")

Day2 == DateCell("2024-01-02", "")

\* rows of three agents, handled and abandoned, in two queues and media
RowA120 == Row("Sales", "voice", "A", No, NumCell(120), NumCell(30), Day1)

RowA180 == Row("Sales", "voice", "A", No, NumCell(180), NullCell, Day1Late)

RowB150 == Row("Support", "chat", "B", No, NumCell(150), NumCell(20000), Day2)

RowBAbandoned == Row("Support", "chat", "B", Yes, NumCell(45), NumCell(60), Day2)

RowC600 == Row("Sales", "chat", "C", No, NumCell(600), NumCell(5), Day1)

RowCAbandoned == Row("Sales", "voice", "C", Yes, NullCell, NumCell(90), NoDate)

\* four agents of one queue whose utilization is 0.3, 0.2, 0.1 and 0.0
RowA86 == Row("Sales", "voice", "A", No, NumCell(86), NumCell(30), Day1)

RowB58 == Row("Sales", "voice", "B", No, NumCell(58), NumCell(30), Day1)

RowC29 == Row("Sales", "voice", "C", No, NumCell(29), NumCell(30), Day1)

RowDAbandoned == Row("Sales", "voice", "D", Yes, NullCell, NumCell(90), Day1)

\* rows of A whose Abandoned cell is 'yes', the boolean true, absent, 'YES'
RowAYesLower == Row("Sales", "voice", "A", StrCell("yes"), NumCell(75), NullCell, Day1)

RowATrue == Row("Sales", "voice", "A", BoolCell(TRUE), NumCell(60), NullCell, Day1)

RowANoFlag == Row("Sales", "chat", "A", NullCell, NumCell(40), NullCell, Day2)

RowAAbandoned == Row("Sales", "voice", "A", Yes, NumCell(45), NumCell(60), Day2)

\* rows that bring a third queue, and A into a second one
RowASupport == Row("Support", "voice", "A", No, NumCell(200), NullCell, Day1)

RowCBilling == Row("Billing", "voice", "C", No, NumCell(90), NullCell, Day1)

\* a handled row without a handle duration
RowCNoHandle == Row("Support", "voice", "C", StrCell("yes"), StrCell("n/a"), NullCell, Day2)

\* rows without a valid agent, and a row the cleaning drops
RowNoAgent == Row("Sales", "voice", "", No, NumCell(100), NullCell, Day1)

RowNullAgent == Row("Support", "chat", "null", No, NumCell(100), NullCell, Day1)

RowNoQueue == Row("", "voice", "A", No, NumCell(100), NullCell, Day1)

RowNoMedia == Row("Sales", "", "B", No, NumCell(100), NullCell, Day1)

\* an interaction handled in one second
RowA1 == Row("Sales", "voice", "A", No, NumCell(1), NumCell(1), Day1)

\* a negative handle duration, which the parser types as a number as well
RowBNegative == Row("Support", "chat", "B", No, NumCell(-100), NullCell, Day1)

\* durations in milliseconds, and durations on either side of 10,000
RowAMillis == Row("Sales", "voice", "A", No, NumCell(30000000), NumCell(45000), Day1)

RowA10000 == Row("Sales", "voice", "A", No, NumCell(10000), NumCell(10001), Day1)

RowA10001 == Row("Sales", "voice", "A", No, NumCell(10001), NumCell(10000), Day2)

\* a row whose Date the parser typed as a number (20240101)
RowNumericDate == Row("Sales", "voice", "B", No, NumCell(200), NullCell, NumDate(20240101))

RowDomain ==
    {RowA120, RowB150, RowBAbandoned, RowC600, RowNullAgent, RowNumericDate}

\* files of a few rows: the end-to-end scenario of the specification, agents
\* far slower and far faster than the team, agents without a handled row
ScenarioFiles ==
    {<<RowA120, RowA180, RowB150, RowBAbandoned>>,
     <<RowA120, RowB150, RowC600>>,
     <<RowC600, RowA120, RowA120, RowB150>>,
     <<RowA120, RowA180, RowC600, RowBAbandoned>>,
     <<RowBAbandoned, RowCAbandoned, RowCAbandoned>>,
     <<RowA120, RowCNoHandle, RowCAbandoned>>,
     <<RowA1, RowC600>>,
     <<RowA120, RowBNegative>>,
     <<RowNoAgent, RowA180, RowCNoHandle>>,
     <<RowAMillis, RowB150>>,
     <<RowA10000, RowA10001>>,
     <<RowNoAgent, RowA120, RowNullAgent, RowA180, RowB150>>,
     <<RowA120, RowC600, RowCAbandoned, RowCNoHandle>>,
     <<RowA86, RowB58, RowC29, RowDAbandoned>>,
     <<RowAYesLower, RowATrue, RowAAbandoned, RowANoFlag>>,
     <<RowA120, RowASupport, RowB150, RowCBilling>>,
     Repeat(RowBAbandoned, MinHandled) \o <<RowB150>>}

\* the rows repeated in bulk files, and the rows that may follow them
BulkRows == {RowA120, RowC600}

TailRows == {RowB150}

BulkSizes == {MinHandled - 1, MinHandled, MaxBulk - 1, MaxBulk}

BulkFiles ==
    {Repeat(r, n) \o t : r \in BulkRows, n \in BulkSizes,
                         t \in SeqsUpTo(TailRows, 1)}

\* the parsed rows of the files of the metrics specification
MetricRows == SeqsUpTo(RowDomain, MaxRows) \cup ScenarioFiles \cup BulkFiles

\* the files of the upload specification
UploadRows == {RowA120, RowB150, RowNoQueue}

\* a file with rows the cleaning drops among rows it keeps
DefectiveRows == <<RowNoQueue, RowA120, RowNoMedia, RowB150>>

UploadFiles ==
    {File(rows) : rows \in SeqsUpTo(UploadRows, MaxUploadRows)}
        \cup {File(DefectiveRows), UnreadableFile}

SortKeys == {"interactions", "handleTime", "efficiency"}

(***************************************************************************)
(* The state machine.                                                      *)
(***************************************************************************)
\* useState initial values
Init ==
    /\ data = null
    /\ selectedQueue = "all"
    /\ selectedMediaType = "all"
    /\ selectedAgent = "all"
    /\ isLoading = FALSE
    /\ error = null
    /\ sortBy = "interactions"
    /\ inFlight = <<>>
    /\ tierCall = null

selectors == <<selectedQueue, selectedMediaType, selectedAgent, sortBy>>

\* handleFileUpload that leaves the error of an earlier attempt in place
handleFileUploadKeepsError(file) ==
    /\ ~Crashed
    /\ FileInputEnabled
    /\ Len(inFlight) < MaxInFlight
    /\ isLoading' = TRUE
    /\ error' = error
    /\ inFlight' = Append(inFlight, file)
    /\ UNCHANGED <<data, selectors, tierCall>>

\* handleFileUpload up to its await: a file was chosen in an enabled input
handleFileUpload(file) ==
    /\ ~Crashed
    /\ FileInputEnabled
    /\ Len(inFlight) < MaxInFlight
    /\ isLoading' = TRUE
    /\ error' = null
    /\ inFlight' = Append(inFlight, file)
    /\ UNCHANGED <<data, selectors, tierCall>>

\* handleFileUpload when the dialog is cancelled: if (!file) return
handleFileUploadNoFile ==
    /\ ~Crashed
    /\ FileInputEnabled
    /\ UNCHANGED vars

\* fileReadSettles without the finally block after a failure
fileReadSettlesNoFinally(i) ==
    /\ ~Crashed
    /\ i \in DOMAIN inFlight
    /\ LET file == inFlight[i] IN
       IF file.readable
       THEN /\ data' = Some(cleanedData(file.rows))
            /\ error' = error
            /\ isLoading' = FALSE
       ELSE /\ error' = Some(ErrorPrefix \o file.message)
            /\ data' = data
            /\ isLoading' = isLoading
    /\ inFlight' = SubSeq(inFlight, 1, i - 1) \o SubSeq(inFlight, i + 1, Len(inFlight))
    /\ UNCHANGED <<selectors, tierCall>>

\* fileReadSettles putting the selectors back to 'all' with the new rows
fileReadSettlesResetsSelectors(i) ==
    /\ ~Crashed
    /\ i \in DOMAIN inFlight
    /\ LET file == inFlight[i] IN
       IF file.readable
       THEN /\ data' = Some(cleanedData(file.rows))
            /\ error' = error
            /\ selectedQueue' = "all"
            /\ selectedMediaType' = "all"
            /\ selectedAgent' = "all"
       ELSE /\ error' = Some(ErrorPrefix \o file.message)
            /\ data' = data
            /\ UNCHANGED <<selectedQueue, selectedMediaType, selectedAgent>>
    /\ isLoading' = FALSE
    /\ inFlight' = SubSeq(inFlight, 1, i - 1) \o SubSeq(inFlight, i + 1, Len(inFlight))
    /\ UNCHANGED <<sortBy, tierCall>>

\* handleFileUpload after its await, for the i-th upload in flight:
\* file.text() resolved (try) or rejected (catch), then finally
fileReadSettles(i) ==
    /\ ~Crashed
    /\ i \in DOMAIN inFlight
    /\ LET file == inFlight[i] IN
       IF file.readable
       THEN /\ data' = Some(cleanedData(file.rows))
            /\ error' = error
       ELSE /\ error' = Some(ErrorPrefix \o file.message)
            /\ data' = data
    /\ isLoading' = FALSE
    /\ inFlight' = SubSeq(inFlight, 1, i - 1) \o SubSeq(inFlight, i + 1, Len(inFlight))
    /\ UNCHANGED <<selectors, tierCall>>

setSelectedQueue(q) ==
    /\ ~Crashed
    /\ MetricsShown
    /\ q \in {"all"} \cup uniqueQueues
    /\ selectedQueue' = q
    /\ UNCHANGED <<data, selectedMediaType, selectedAgent, isLoading, error,
                   sortBy, inFlight, tierCall>>

setSelectedMediaType(m) ==
    /\ ~Crashed
    /\ MetricsShown
    /\ m \in {"all"} \cup uniqueMediaTypes
    /\ selectedMediaType' = m
    /\ UNCHANGED <<data, selectedQueue, selectedAgent, isLoading, error,
                   sortBy, inFlight, tierCall>>

setSelectedAgent(a) ==
    /\ ~Crashed
    /\ MetricsShown
    /\ a \in {"all"} \cup uniqueAgents
    /\ selectedAgent' = a
    /\ UNCHANGED <<data, selectedQueue, selectedMediaType, isLoading, error,
                   sortBy, inFlight, tierCall>>

setSortBy(key) ==
    /\ ~Crashed
    /\ MetricsShown
    /\ key \in SortKeys
    /\ sortBy' = key
    /\ UNCHANGED <<data, selectedQueue, selectedMediaType, selectedAgent,
                   isLoading, error, inFlight, tierCall>>

\* tryAgain offered whenever an error is set
tryAgainWheneverError ==
    /\ error # null
    /\ error' = null
    /\ data' = null
    /\ UNCHANGED <<selectors, isLoading, inFlight, tierCall>>

\* the Try Again button of the error view
tryAgain ==
    /\ ErrorView
    /\ error' = null
    /\ data' = null
    /\ UNCHANGED <<selectors, isLoading, inFlight, tierCall>>

QueueNames == {"Sales", "Support", "Billing"}

MediaNames == {"voice", "chat"}

AgentNames == {"A", "B", "C", "D"}

SelectorNext ==
    \/ \E q \in {"all"} \cup QueueNames : setSelectedQueue(q)
    \/ \E m \in {"all"} \cup MediaNames : setSelectedMediaType(m)
    \/ \E a \in {"all"} \cup AgentNames : setSelectedAgent(a)
    \/ \E key \in SortKeys : setSortBy(key)

Next ==
    \/ \E file \in UploadFiles : handleFileUpload(file)
    \/ handleFileUploadNoFile
    \/ \E i \in 1..MaxInFlight : fileReadSettles(i)
    \/ SelectorNext
    \/ tryAgain

Spec == Init /\ [][Next]_vars

\* the upload specification with the promise of file.text() always settling
LiveSpec == Spec /\ WF_vars(\E i \in 1..MaxInFlight : fileReadSettles(i))

(***************************************************************************)
(* The metrics specification: the dashboard after one successful upload,   *)
(* with the selectors and the sort key then changed at will.               *)
(***************************************************************************)
MetricsInit ==
    /\ data \in {Some(cleanedData(rows)) : rows \in MetricRows}
    /\ selectedQueue = "all"
    /\ selectedMediaType = "all"
    /\ selectedAgent = "all"
    /\ isLoading = FALSE
    /\ error = null
    /\ sortBy = "interactions"
    /\ inFlight = <<>>
    /\ tierCall = null

MetricsSpec == MetricsInit /\ [][SelectorNext]_vars

(***************************************************************************)
(* The tier specification: calculatePerformanceTier called on arguments    *)
(* drawn from the sets below, the dashboard left in its initial state.     *)
(***************************************************************************)
TierEfficiencies == {-50, 0, 60, 75, 76, 100, 113, 125, 200}

TierProductivities ==
    {Num(0), Num(50), Frac(200, 3), Frac(175, 2), Num(90), Num(100)}

TierInteractions == {MinHandled - 1, MinHandled, MinHandled + 1, 25, 50, 99, 100, 150}

TierInit ==
    /\ data = null
    /\ selectedQueue = "all"
    /\ selectedMediaType = "all"
    /\ selectedAgent = "all"
    /\ isLoading = FALSE
    /\ error = null
    /\ sortBy = "interactions"
    /\ inFlight = <<>>
    /\ tierCall \in {Some([efficiency |-> Num(e), productivity |-> p,
                            interactions |-> n, tier |-> null]) :
                          e \in TierEfficiencies, p \in TierProductivities,
                          n \in TierInteractions}

\* the call returns
calculateTier ==
    /\ tierCall # null
    /\ tierCall[1].tier = null
    /\ tierCall' = Some([tierCall[1] EXCEPT !.tier =
                            Some(calculatePerformanceTier(tierCall[1].efficiency,
                                                          tierCall[1].productivity,
                                                          tierCall[1].interactions))])
    /\ UNCHANGED <<data, selectors, isLoading, error, inFlight>>

TierSpec == TierInit /\ [][calculateTier]_vars

(***************************************************************************)
(* Definitions the properties are stated with, computed from the rows      *)
(* independently of the aggregation.                                       *)
(***************************************************************************)
\* the value of the agentMetrics memo when it is an object
Metrics == agentMetrics[1]

\* a render whose agentMetrics is an object
Computed == data # null /\ ~Crashed

FilteredRows ==
    filteredData(data[1], selectedQueue, selectedMediaType, selectedAgent)

\* the valid agent identifiers of the filtered rows
ValidAgents == {FilteredRows[i].Agent : i \in DOMAIN FilteredRows} \ {"", "null"}

RowsOf(x) == SelectSeq(FilteredRows, LAMBDA r : r.Agent = x)

HandledRowsOf(x) == SelectSeq(RowsOf(x), LAMBDA r : ~IsAbandoned(r))

HandleSeconds(r) ==
    IF IsNumeric(r.TotalHandle) THEN normaliseDuration(r.TotalHandle.num)
    ELSE Num(0)

\* summed handle time of x's handled rows / number of x's handled rows
PersonalAvg(x) ==
    Div(SumSeq(Map(HandledRowsOf(x), HandleSeconds)), Num(Len(HandledRowsOf(x))))

\* the agents with at least one handled interaction
HandlingAgents == {x \in ValidAgents : Len(HandledRowsOf(x)) > 0}

RECURSIVE SetToSeq(_)
SetToSeq(S) ==
    IF S = {} THEN <<>>
    ELSE LET x == CHOOSE y \in S : TRUE IN <<x>> \o SetToSeq(S \ {x})

\* the unweighted mean of the personal averages of the handling agents
MeanOfMeans ==
    Div(SumSeq(Map(SetToSeq(HandlingAgents), PersonalAvg)),
        Num(Cardinality(HandlingAgents)))

\* the mean of all handled rows' durations, each row weighing the same
PooledMean ==
    LET handled == SelectSeq(FilteredRows,
                             LAMBDA r : HasAgent(r) /\ ~IsAbandoned(r))
    IN  Div(SumSeq(Map(handled, HandleSeconds)), Num(Len(handled)))

AgentsOut == Range(Metrics.agents)

NumericSummaryFields(w) ==
    {w.avgInteractionsPerAgent, w.avgHandleTimeOverall, w.avgEfficiency,
     w.avgUtilization}

(***************************************************************************)
(* C1.  For every input no numeric field of the workforce summary is       *)
(* not-a-number: with an empty agent list the summary has totalAgents = 0  *)
(* and its averages are zero, and when agents exist but none has a handled *)
(* interaction the team average handle time is 0.                          *)
(* The code divides by agents.length and by the number of agents with a    *)
(* handled interaction without a zero check, so this is violated.          *)
(***************************************************************************)
C1_SummaryIsNeverNaN ==
    Computed =>
        LET w == Metrics.workforceStats IN
        /\ \A x \in NumericSummaryFields(w) : ~IsNaN(x)
        /\ Metrics.agents = <<>> =>
               /\ w.totalAgents = 0
               /\ \A x \in NumericSummaryFields(w) : x = Num(0)
        /\ (Metrics.agents # <<>> /\ HandlingAgents = {}) =>
               w.avgHandleTimeOverall = Num(0)

(***************************************************************************)
(* C2.  After an upload attempt has failed at file level, and until a new  *)
(* file is supplied, no metrics are available and the error view is the    *)
(* one shown, also when an earlier upload had succeeded.  (error is set    *)
(* exactly from a failed attempt until the next attempt starts.)           *)
(* The code keeps the rows of the earlier upload, so the metrics stay      *)
(* available and the error is never rendered: this is violated.            *)
(***************************************************************************)
C2_FailedUploadBlocksMetrics ==
    error # null => (agentMetrics = null /\ ErrorView)

\* x's own average handle time: 0 without a handled interaction
OwnAvg(x) == IF Len(HandledRowsOf(x)) > 0 THEN PersonalAvg(x) ELSE Num(0)

\* 0.4 x efficiency + 0.4 x (handled / total x 100) + 20 x min(handled/100, 1)
\* of an output entry, as one fraction
Composite(a) ==
    LET e == a.efficiencyScore[1]
        h == a.handledInteractions
        t == a.totalInteractions
        v == IF h < 100 THEN h ELSE 100
    IN  Frac(2 * e * t + 200 * h + v * t, 5 * t)

TierOfComposite(c) ==
    IF Ge(c, Num(85)) THEN "gold"
    ELSE IF Ge(c, Num(70)) THEN "silver"
    ELSE "bronze"

(***************************************************************************)
(* C4.  Every agent of the output without a handled interaction has        *)
(* average handle time 0, efficiency score 100, interactions per hour 0    *)
(* and utilization 0 (none of them not-a-number), whatever the other       *)
(* agents' data and the handle durations of its abandoned rows.            *)
(***************************************************************************)
C4_ZeroHandledAgent ==
    Computed =>
        \A a \in AgentsOut :
            Len(HandledRowsOf(a.name)) = 0 =>
                /\ a.avgHandleTime = Num(0)
                /\ a.efficiencyScore = Num(100)
                /\ a.interactionsPerHour = Num(0)
                /\ a.utilizationRate = Num(0)

\* an agent with only abandoned rows, one of them with a handle duration and
\* a date, beside agents that give a positive team average
C4_Witness ==
    /\ Computed
    /\ Gt(Metrics.teamAvgHandleTime, Num(0))
    /\ \E a \in AgentsOut :
           /\ Len(HandledRowsOf(a.name)) = 0
           /\ a.daysWorked > 0
           /\ \E r \in Range(RowsOf(a.name)) : IsNumeric(r.TotalHandle)

(***************************************************************************)
(* C5.  The team average handle time is the unweighted mean of the         *)
(* personal averages (summed handle time / handled count) of exactly the   *)
(* agents of the filtered rows with at least one handled interaction.      *)
(***************************************************************************)
C5_TeamAverageIsMeanOfMeans ==
    (Computed /\ HandlingAgents # {}) =>
        Metrics.teamAvgHandleTime = MeanOfMeans

\* agents with different numbers of handled rows, so that the mean of means
\* is not the pooled mean, and an agent without a handled row
C5_Witness ==
    /\ Computed
    /\ Cardinality(HandlingAgents) >= 2
    /\ HandlingAgents # ValidAgents
    /\ MeanOfMeans # PooledMean
    /\ Metrics.teamAvgHandleTime = MeanOfMeans

(***************************************************************************)
(* C6.  Every agent whose own average handle time equals the team average  *)
(* handle time has an efficiency score of exactly 100.                     *)
(***************************************************************************)
C6_ParityScores100 ==
    Computed =>
        \A a \in AgentsOut :
            OwnAvg(a.name) = Metrics.teamAvgHandleTime =>
                a.efficiencyScore = Num(100)

\* two agents, one at the (positive) team average
C6_Witness ==
    /\ Computed
    /\ Cardinality(HandlingAgents) >= 2
    /\ Gt(Metrics.teamAvgHandleTime, Num(0))
    /\ \E a \in AgentsOut :
           /\ OwnAvg(a.name) = Metrics.teamAvgHandleTime
           /\ a.efficiencyScore = Num(100)

(***************************************************************************)
(* C7 as claimed: there are inputs for which some agent's efficiency score *)
(* exceeds 200, here among the files of the model under the selections in  *)
(* force.  No file has one.                                                *)
(***************************************************************************)
C7_SomeScoreExceeds200 ==
    \E rows \in MetricRows :
        LET m == computeMetrics(cleanedData(rows), selectedQueue,
                                selectedMediaType, selectedAgent, sortBy)
        IN  \E i \in DOMAIN m.agents :
                Gt(m.agents[i].efficiencyScore, Num(200))

(***************************************************************************)
(* C7 as amended.  No ceiling is applied to the efficiency score, but the  *)
(* formula bounds it: every agent's efficiency score is at most 200, the   *)
(* score of an agent far faster than the team.                             *)
(***************************************************************************)
C7_ScoreAtMost200 ==
    Computed =>
        \A a \in AgentsOut : ~Gt(a.efficiencyScore, Num(200))

\* an agent so much faster than the team that its score is 200
C7_Witness ==
    /\ Computed
    /\ \E a \in AgentsOut : a.efficiencyScore = Num(200)

(***************************************************************************)
(* C8.  No floor is applied to the efficiency score: every agent whose     *)
(* average handle time is more than 2.005 times the (positive) team        *)
(* average has a negative score, and there are such agents.                *)
(***************************************************************************)
C8_NoFloor ==
    Computed =>
        \A a \in AgentsOut :
            (/\ Gt(Metrics.teamAvgHandleTime, Num(0))
             /\ Gt(Mul(Num(100), Div(OwnAvg(a.name), MeanOfMeans)),
                   Frac(401, 2)))
                => Lt(a.efficiencyScore, Num(0))

\* an agent with a negative efficiency score
C8_Witness ==
    /\ Computed
    /\ \E a \in AgentsOut : Lt(a.efficiencyScore, Num(0))

(***************************************************************************)
(* C9.  Every agent with fewer than 10 handled interactions has tier       *)
(* 'new', whatever its efficiency score, productivity rate and total       *)
(* interaction count.                                                      *)
(***************************************************************************)
C9_FewHandledIsNew ==
    Computed =>
        \A a \in AgentsOut :
            Len(HandledRowsOf(a.name)) < 10 => a.performanceTier = "new"

\* an agent with 9 handled interactions whose composite would make it gold
C9_Witness ==
    /\ Computed
    /\ \E a \in AgentsOut :
           /\ Len(HandledRowsOf(a.name)) = 9
           /\ Gt(a.efficiencyScore, Num(100))
           /\ Ge(Composite(a), Num(85))
           /\ a.performanceTier = "new"

(***************************************************************************)
(* C10.  For every agent with at least 10 handled interactions the tier is *)
(* decided by the composite 0.4 x efficiency score + 0.4 x productivity    *)
(* rate + 20 x min(handled/100, 1): 'gold' exactly when it is at least 85, *)
(* 'silver' exactly when it is at least 70 and below 85, 'bronze'          *)
(* otherwise; no such agent is 'new'.                                      *)
(***************************************************************************)
C10_TierByComposite ==
    Computed =>
        \A a \in AgentsOut :
            Len(HandledRowsOf(a.name)) >= 10 =>
                a.performanceTier = TierOfComposite(Composite(a))

\* an agent whose composite is exactly 85, and which is gold
C10_Witness ==
    /\ Computed
    /\ \E a \in AgentsOut :
           /\ Len(HandledRowsOf(a.name)) >= 10
           /\ Composite(a) = Num(85)
           /\ a.performanceTier = "gold"

\* the distinct days of x's rows that carry a date
DaysActive(x) ==
    {r.Date.day : r \in {q \in Range(RowsOf(x)) : q.Date.type = "string"}}

\* the summed handle time of x's handled rows
HandleTotal(x) == SumSeq(Map(HandledRowsOf(x), HandleSeconds))

(***************************************************************************)
(* C11.  For every agent the reported utilization rate is at most 100; it  *)
(* is exactly 100 whenever the agent's summed handle time exceeds          *)
(* daysActive x 28,800 seconds with daysActive > 0, and it is 0 when       *)
(* daysActive is 0.                                                        *)
(***************************************************************************)
C11_UtilizationCapped ==
    Computed =>
        \A a \in AgentsOut :
            LET days == Cardinality(DaysActive(a.name)) IN
            /\ ~Gt(a.utilizationRate, Num(100))
            /\ (days > 0 /\ Gt(HandleTotal(a.name), Num(days * 28800)))
                   => a.utilizationRate = Num(100)
            /\ days = 0 => a.utilizationRate = Num(0)

\* an agent with more than eight hours of handle time on its one active day
C11_Witness ==
    /\ Computed
    /\ \E a \in AgentsOut :
           /\ Cardinality(DaysActive(a.name)) = 1
           /\ Gt(HandleTotal(a.name), Num(28800))
           /\ a.utilizationRate = Num(100)

\* the aggregates of the agents of the filtered rows
Aggregates == Range(agentStats(FilteredRows).stats)

\* what a duration value is to contribute
Contribution(d) == IF d <= 10000 THEN Num(d) ELSE Frac(d, 1000)

(***************************************************************************)
(* C12.  Unit normalisation is applied to every duration value d on its    *)
(* own: each numeric handle duration of a handled row is recorded as d     *)
(* when d <= 10,000 and as d/1000 when d > 10,000 (10,000 as 10,000 and    *)
(* 10,001 as 10.001), the handle total is their sum, and the queue total   *)
(* is the sum of the same contributions of the numeric queue durations.    *)
(***************************************************************************)
C12_NormalisedPerValue ==
    Computed =>
        \A s \in Aggregates :
            LET timed == SelectSeq(HandledRowsOf(s.name),
                                   LAMBDA r : IsNumeric(r.TotalHandle))
                queued == SelectSeq(RowsOf(s.name),
                                    LAMBDA r : IsNumeric(r.TotalQueue))
            IN  /\ Len(s.handleTimes) = Len(timed)
                /\ \A j \in DOMAIN timed :
                       LET d == timed[j].TotalHandle.num IN
                       /\ s.handleTimes[j] = Contribution(d)
                       /\ d = 10000 => s.handleTimes[j] = <<10000, 1>>
                       /\ d = 10001 => s.handleTimes[j] = <<10001, 1000>>
                /\ s.totalHandleTime = SumSeq(s.handleTimes)
                /\ s.totalQueueTime =
                       SumSeq([j \in DOMAIN queued |->
                                  Contribution(queued[j].TotalQueue.num)])

\* an agent with handle and queue durations of 10,000 and of 10,001
C12_Witness ==
    /\ Computed
    /\ \E s \in Aggregates :
           /\ s.handleTimes = << <<10000, 1>>, <<10001, 1000>> >>
           /\ s.totalHandleTime = <<10010001, 1000>>
           /\ s.totalQueueTime = <<10010001, 1000>>

\* one filter step: the rows whose field equals the selector, all rows for 'all'
ByQueue(rows, q) ==
    IF q = "all" THEN rows ELSE SelectSeq(rows, LAMBDA r : r.Queue = q)

ByMedia(rows, m) ==
    IF m = "all" THEN rows ELSE SelectSeq(rows, LAMBDA r : r.MediaType = m)

ByAgent(rows, a) ==
    IF a = "all" THEN rows ELSE SelectSeq(rows, LAMBDA r : r.Agent = a)

\* the rows that match every active selector, kept in a single pass
SinglePass(rows, q, m, a) ==
    SelectSeq(rows, LAMBDA r : /\ q = "all" \/ r.Queue = q
                               /\ m = "all" \/ r.MediaType = m
                               /\ a = "all" \/ r.Agent = a)

(***************************************************************************)
(* C13.  Filtering is order-independent: the filtered rows are the rows    *)
(* that match every active selector, kept in one pass, and so are the rows *)
(* obtained by applying the three selectors one after another in each of   *)
(* the six orders; a selector equal to 'all' removes no row.               *)
(***************************************************************************)
C13_FilterOrderIndependent ==
    data # null =>
        LET rows == data[1]
            q == selectedQueue
            m == selectedMediaType
            a == selectedAgent
            one == SinglePass(rows, q, m, a)
        IN  /\ filteredData(rows, q, m, a) = one
            /\ ByAgent(ByMedia(ByQueue(rows, q), m), a) = one
            /\ ByMedia(ByAgent(ByQueue(rows, q), a), m) = one
            /\ ByAgent(ByQueue(ByMedia(rows, m), q), a) = one
            /\ ByQueue(ByAgent(ByMedia(rows, m), a), q) = one
            /\ ByMedia(ByQueue(ByAgent(rows, a), q), m) = one
            /\ ByQueue(ByMedia(ByAgent(rows, a), m), q) = one
            /\ filteredData(rows, "all", "all", "all") = rows
            /\ filteredData(rows, "all", m, a) = ByAgent(ByMedia(rows, m), a)
            /\ filteredData(rows, q, "all", a) = ByAgent(ByQueue(rows, q), a)
            /\ filteredData(rows, q, m, "all") = ByMedia(ByQueue(rows, q), m)

\* three active selectors, each removing a row the other two keep
C13_Witness ==
    /\ data # null
    /\ selectedQueue # "all"
    /\ selectedMediaType # "all"
    /\ selectedAgent # "all"
    /\ LET rows == data[1]
           q == selectedQueue
           m == selectedMediaType
           a == selectedAgent
       IN  /\ filteredData(rows, q, m, a) # <<>>
           /\ filteredData(rows, q, m, a) # ByMedia(ByQueue(rows, q), m)
           /\ filteredData(rows, q, m, a) # ByAgent(ByQueue(rows, q), a)
           /\ filteredData(rows, q, m, a) # ByAgent(ByMedia(rows, m), a)

\* the filtered rows that carry a valid agent identifier
AttributedRows ==
    SelectSeq(FilteredRows, LAMBDA r : r.Agent \notin {"", "null"})

C16_NoRowFailsAggregation ==
    data # null =>
        LET st == agentStats(FilteredRows) IN
        /\ ~st.threw
        /\ \A s \in Range(st.stats) :
               /\ s.totalInteractions = Len(RowsOf(s.name))
               /\ s.totalHandleTime = HandleTotal(s.name)

\* the derived agent metrics before they are sorted
Derived ==
    LET allAgents == agentStats(FilteredRows).stats
    IN  agentsFrom(allAgents, 1, teamAvgHandleTimeOf(allAgents),
                   totalQueuesOf(data[1]))

\* list is ordered by key
OrderedBy(list, key) ==
    \A i, j \in DOMAIN list :
        i < j =>
            CASE key = "handleTime" ->
                     ~Gt(list[i].avgHandleTime, list[j].avgHandleTime)
              [] key = "efficiency" ->
                     ~Lt(list[i].efficiencyScore, list[j].efficiencyScore)
              [] OTHER ->
                     list[i].totalInteractions >= list[j].totalInteractions

\* list holds the elements of other, each as often
PermutationOf(list, other) ==
    /\ Len(list) = Len(other)
    /\ \A x \in Range(list) \cup Range(other) :
           Cardinality({i \in DOMAIN list : list[i] = x})
               = Cardinality({i \in DOMAIN other : other[i] = x})

(***************************************************************************)
(* C17.  The returned agent list is a permutation of the derived agent     *)
(* metrics ordered by the selected key: by 'interactions' (and by any      *)
(* unrecognised key) totalInteractions never increases along the list, by  *)
(* 'handleTime' the average handle time never decreases, by 'efficiency'   *)
(* the efficiency score never increases.                                   *)
(***************************************************************************)
C17_SortedByKey ==
    Computed =>
        LET derived == Derived
            sorted == Metrics.agents
            unrecognised ==
                computeMetrics(data[1], selectedQueue, selectedMediaType,
                               selectedAgent, "name").agents
        IN  /\ PermutationOf(sorted, derived)
            /\ OrderedBy(sorted, sortBy)
            /\ PermutationOf(unrecognised, derived)
            /\ OrderedBy(unrecognised, "interactions")

\* three agents sorted by handle time into an order that is neither the
\* order of their first rows nor the order by interactions
C17_Witness ==
    /\ Computed
    /\ sortBy = "handleTime"
    /\ LET sorted == Metrics.agents IN
       /\ Len(sorted) = 3
       /\ sorted # Derived
       /\ ~OrderedBy(sorted, "interactions")
       /\ \A i \in 1..2 :
              Lt(sorted[i].avgHandleTime, sorted[i + 1].avgHandleTime)

(***************************************************************************)
(* C18.  The workforce summary does not depend on the sort key: for the    *)
(* stored rows and the chosen selectors, every sort key yields the same    *)
(* summary and the same set of agent entries.                              *)
(***************************************************************************)
C18_SummaryIgnoresSortKey ==
    Computed =>
        LET shown == Metrics IN
        \A key \in SortKeys :
            LET other == computeMetrics(data[1], selectedQueue, selectedMediaType,
                                        selectedAgent, key)
            IN  /\ other.workforceStats = shown.workforceStats
                /\ Range(other.agents) = Range(shown.agents)

(***************************************************************************)
(* C19.  Every upload attempt that completes ends in exactly one of two    *)
(* ways: the stored rows are the cleaned rows of the file and the error is *)
(* null, or the error is the prefixed failure message and the stored rows  *)
(* are the ones from before the attempt.  A readable file never sets the   *)
(* error, whatever is wrong with its rows.                                 *)
(***************************************************************************)
C19_UploadSucceedsOrFails ==
    [][\A i \in 1..MaxInFlight : fileReadSettles(i) =>
          LET file == inFlight[i]
              succeeded == /\ data' = Some(cleanedData(file.rows))
                           /\ error' = null
              failed == /\ error' # null
                        /\ SubSeq(error'[1], 1, Len(ErrorPrefix)) = ErrorPrefix
                        /\ data' = data
          IN  /\ succeeded # failed
              /\ file.readable => succeeded]_vars

\* a failed attempt has completed after a successful one, the rows of the
\* successful one still stored
C19_Witness ==
    /\ inFlight = <<>> /\ ~isLoading
    /\ error = Some(ErrorPrefix \o UnreadableFile.message)
    /\ data # null /\ data[1] # <<>>

\* the handle times of x's rows that are not abandoned, as a bag
HandledBagOf(rows, x) ==
    LET own == SelectSeq(rows, LAMBDA row : row.Agent = x /\ ~IsAbandoned(row))
    IN  [h \in {own[i].TotalHandle.num : i \in DOMAIN own} |->
            Len(SelectSeq(own, LAMBDA row : row.TotalHandle.num = h))]

\* agent A handled 120 s and 180 s in Sales / voice; agent B handled 150 s
\* and abandoned one assigned interaction in Support / chat; no other rows
ScenarioRows(rows) ==
    /\ Len(rows) = 4
    /\ \A i \in DOMAIN rows :
           \/ /\ rows[i].Agent = "A" /\ ~IsAbandoned(rows[i])
              /\ rows[i].Queue = "Sales" /\ rows[i].MediaType = "voice"
              /\ rows[i].TotalHandle.type = "number"
           \/ /\ rows[i].Agent = "B"
              /\ rows[i].Queue = "Support" /\ rows[i].MediaType = "chat"
              /\ IsAbandoned(rows[i]) \/ rows[i].TotalHandle.type = "number"
    /\ HandledBagOf(rows, "A") = (120 :> 1) @@ (180 :> 1)
    /\ HandledBagOf(rows, "B") = (150 :> 1)
    /\ Len(SelectSeq(rows, LAMBDA row : row.Agent = "B" /\ IsAbandoned(row))) = 1

(***************************************************************************)
(* C20.  End to end: for the rows of the scenario (A handles 120 s and     *)
(* 180 s, B handles 150 s and abandons one) and all selectors 'all', the   *)
(* team average handle time is 150, the efficiency of A and of B is 100,   *)
(* the productivity is 100 for A and 50 for B, and both have tier 'new'.   *)
(***************************************************************************)
C20_EndToEndScenario ==
    (/\ Computed /\ ScenarioRows(data[1])
     /\ selectedQueue = "all" /\ selectedMediaType = "all"
     /\ selectedAgent = "all") =>
        /\ Metrics.teamAvgHandleTime = Num(150)
        /\ {a.name : a \in AgentsOut} = {"A", "B"}
        /\ \A a \in AgentsOut :
               /\ a.efficiencyScore = Num(100)
               /\ a.productivityRate = Num(IF a.name = "A" THEN 100 ELSE 50)
               /\ a.performanceTier = "new"

\* the scenario is uploaded and shown with the default selectors, the list
\* sorted by efficiency
C20_Witness ==
    /\ Computed /\ ScenarioRows(data[1])
    /\ selectedQueue = "all" /\ selectedMediaType = "all"
    /\ selectedAgent = "all" /\ sortBy = "efficiency"
    /\ Len(Metrics.agents) = 2
    /\ Metrics.workforceStats.avgHandleTimeOverall = Num(150)

\* the Abandoned cell is the string 'YES'
FlaggedYes(r) == r.Abandoned = StrCell("YES")

\* what the handle cell of a row adds when the row is counted as handled
HandleOf(r) ==
    IF r.TotalHandle.type = "number" THEN Contribution(r.TotalHandle.num)
    ELSE Num(0)

(***************************************************************************)
(* C21.  For every agent, the abandoned count is the number of its rows    *)
(* whose Abandoned cell is exactly the string 'YES' and the handled count  *)
(* is the number of all its other rows ('yes', 'NO', a boolean, no value); *)
(* the summed handle time is the sum over the handled rows alone, so the   *)
(* handle duration of an abandoned row never contributes.                  *)
(***************************************************************************)
C21_AbandonedExactlyYes ==
    Computed =>
        \A s \in Aggregates :
            LET rows == RowsOf(s.name)
                flagged == SelectSeq(rows, FlaggedYes)
                others == SelectSeq(rows, LAMBDA r : ~FlaggedYes(r))
            IN  /\ s.abandonedWhileAssigned = Len(flagged)
                /\ s.handledInteractions = Len(others)
                /\ s.totalHandleTime = SumSeq(Map(others, HandleOf))
                /\ Len(s.handleTimes) =
                       Len(SelectSeq(others, LAMBDA r : IsNumeric(r.TotalHandle)))

\* an agent with rows flagged 'yes', true and not at all, counted as handled,
\* and a row flagged 'YES' whose handle duration is left out of the sum
C21_Witness ==
    /\ Computed
    /\ \E s \in Aggregates :
           LET cells == {r.Abandoned : r \in Range(RowsOf(s.name))} IN
           /\ {StrCell("yes"), BoolCell(TRUE), NullCell} \subseteq cells
           /\ \E r \in Range(RowsOf(s.name)) :
                  FlaggedYes(r) /\ IsNumeric(r.TotalHandle)
           /\ s.abandonedWhileAssigned = 1 /\ s.handledInteractions = 3
           /\ s.totalHandleTime = Num(175)

\* the distinct queues of a list of rows
QueuesOf(rows) == {rows[i].Queue : i \in DOMAIN rows} \ {""}

(***************************************************************************)
(* C22.  The versatility score of an agent is 100 x (the number of         *)
(* distinct queues of the agent's filtered rows) / (the number of distinct *)
(* queues of all stored rows), reported to one decimal: the denominator    *)
(* does not depend on the selectors, and the score is at most 100.         *)
(***************************************************************************)
C22_VersatilityOverAllQueues ==
    Computed =>
        \A a \in AgentsOut :
            LET own == Cardinality(QueuesOf(RowsOf(a.name)))
                all == Cardinality(QueuesOf(data[1]))
            IN  /\ a.versatilityScore = ToFixed1(Frac(100 * own, all))
                /\ ~Gt(a.versatilityScore, Num(100))

\* a queue is selected, so the filtered rows have one queue and the stored
\* rows three: the score is 33.3, not 100
C22_Witness ==
    /\ Computed
    /\ selectedQueue # "all"
    /\ Cardinality(QueuesOf(FilteredRows)) = 1
    /\ Cardinality(QueuesOf(data[1])) = 3
    /\ \E a \in AgentsOut : a.versatilityScore = Frac(333, 10)

(***************************************************************************)
(* C23.  In every reachable state every stored row has a non-empty Queue   *)
(* and a non-empty Media Type, so every agent of the output has            *)
(* uniqueQueues >= 1 and uniqueMediaTypes >= 1.                            *)
(***************************************************************************)
C23_StoredRowsHaveQueueAndMedia ==
    data # null =>
        /\ \A i \in DOMAIN data[1] :
               data[1][i].Queue # "" /\ data[1][i].MediaType # ""
        /\ Computed =>
               \A a \in AgentsOut : a.uniqueQueues >= 1 /\ a.uniqueMediaTypes >= 1

\* the file with a row lacking its queue and a row lacking its media type
\* was uploaded: its two other rows are the stored ones
C23_Witness ==
    /\ data = Some(<<RowA120, RowB150>>)
    /\ data[1] = cleanedData(DefectiveRows)
    /\ Len(Metrics.agents) = 2

(***************************************************************************)
(* C24.  Every upload attempt that was started ends with isLoading false,  *)
(* whether the file could be read or not, and a failed attempt is not      *)
(* retried: once an attempt has failed, the stored rows and the error stay *)
(* as they are until a file is chosen again or Try Again is pressed.       *)
(***************************************************************************)
C24_AttemptsEndAndAreNotRetried ==
    /\ (inFlight # <<>>) ~> (inFlight = <<>> /\ ~isLoading)
    /\ [][(error # null /\ inFlight = <<>>) =>
             \/ data' = data /\ error' = error /\ inFlight' = <<>>
             \/ \E file \in UploadFiles : handleFileUpload(file)
             \/ tryAgain]_vars

\* an attempt has failed with no rows stored, and nothing is in flight
C24_Witness ==
    /\ inFlight = <<>> /\ ~isLoading
    /\ error = Some(ErrorPrefix \o UnreadableFile.message)
    /\ data = null

(***************************************************************************)
(* C25.  For every agent of every output, handledInteractions +            *)
(* abandonedWhileAssigned = totalInteractions and totalInteractions >= 1.  *)
(***************************************************************************)
C25_CountersAddUp ==
    Computed =>
        \A a \in AgentsOut :
            /\ a.handledInteractions + a.abandonedWhileAssigned = a.totalInteractions
            /\ a.totalInteractions >= 1

\* an agent with a handled row that has no handle time and an abandoned row
C25_Witness ==
    /\ Computed
    /\ \E a \in AgentsOut :
           /\ a.abandonedWhileAssigned >= 1
           /\ a.handledInteractions >= 1
           /\ \E r \in Range(RowsOf(a.name)) :
                  ~FlaggedYes(r) /\ ~IsNumeric(r.TotalHandle)

(***************************************************************************)
(* C26.  When the agent selector names an agent X, the agent list has at   *)
(* most one entry, that entry is X, and its efficiency score is exactly    *)
(* 100 if X's average handle time is positive, the team average being      *)
(* taken over the filtered rows.                                           *)
(***************************************************************************)
C26_SelectedAgentScores100 ==
    (Computed /\ selectedAgent # "all") =>
        /\ Len(Metrics.agents) <= 1
        /\ \A a \in AgentsOut :
               /\ a.name = selectedAgent
               /\ Gt(OwnAvg(a.name), Num(0)) => a.efficiencyScore = Num(100)

\* X is selected and scores 100; with the agent selector at 'all' the same
\* agent has another score
C26_Witness ==
    /\ Computed /\ selectedAgent # "all"
    /\ \E a \in AgentsOut :
           /\ Gt(OwnAvg(a.name), Num(0))
           /\ a.efficiencyScore = Num(100)
           /\ \E b \in Range(computeMetrics(data[1], selectedQueue, selectedMediaType,
                                            "all", sortBy).agents) :
                  b.name = a.name /\ b.efficiencyScore # Num(100)

(***************************************************************************)
(* C27.  An upload changes only the stored rows, the error and isLoading:  *)
(* the three selectors and the sort key keep their values when an upload   *)
(* starts and when it completes, so the rows of the new file are filtered  *)
(* by the selectors chosen for the earlier file.                           *)
(***************************************************************************)
C27_UploadKeepsSelectors ==
    [][((\E file \in UploadFiles : handleFileUpload(file))
            \/ (\E i \in 1..MaxInFlight : fileReadSettles(i))) =>
          /\ selectedQueue' = selectedQueue
          /\ selectedMediaType' = selectedMediaType
          /\ selectedAgent' = selectedAgent
          /\ sortBy' = sortBy]_vars

\* the agent chosen for an earlier file has no row in the file now stored:
\* the agent list is empty
C27_Witness ==
    /\ data # null /\ data[1] # <<>>
    /\ inFlight = <<>> /\ ~isLoading
    /\ selectedAgent # "all"
    /\ \A i \in DOMAIN data[1] : data[1][i].Agent # selectedAgent
    /\ Metrics.agents = <<>>

(***************************************************************************)
(* C28.  In every reachable state isLoading is true while an upload that   *)
(* was started has not completed, and it is false only when no upload is   *)
(* in flight; the file inputs, disabled while isLoading, accept no second  *)
(* file during an upload, so at most one upload is in flight.              *)
(***************************************************************************)
C28_LoadingWhileInFlight ==
    /\ inFlight # <<>> => isLoading /\ ~FileInputEnabled
    /\ ~isLoading => inFlight = <<>>
    /\ Len(inFlight) <= 1

\* a file was chosen while the dashboard of an earlier file is shown: its
\* read has not completed and the inputs are disabled
C28_Witness ==
    /\ Len(inFlight) = 1 /\ isLoading
    /\ data # null /\ ~ErrorView
    /\ ~FileInputEnabled

\* bronze < silver < gold
TierRank(t) == CASE t = "bronze" -> 1 [] t = "silver" -> 2 [] t = "gold" -> 3
                 [] OTHER -> 0

(***************************************************************************)
(* C29.  For at least 10 handled interactions the tier is monotone in the  *)
(* order bronze < silver < gold: raising the efficiency score, or the      *)
(* productivity rate, or the handled count, the other two arguments fixed, *)
(* never lowers the tier.                                                  *)
(***************************************************************************)
C29_TierMonotone ==
    (tierCall # null /\ tierCall[1].tier # null
        /\ tierCall[1].interactions >= MinHandled) =>
        LET e == tierCall[1].efficiency
            p == tierCall[1].productivity
            n == tierCall[1].interactions
            rank == TierRank(tierCall[1].tier[1])
        IN  /\ rank >= 1
            /\ \A e2 \in TierEfficiencies :
                   Gt(Num(e2), e) =>
                       TierRank(calculatePerformanceTier(Num(e2), p, n)) >= rank
            /\ \A p2 \in TierProductivities :
                   Gt(p2, p) =>
                       TierRank(calculatePerformanceTier(e, p2, n)) >= rank
            /\ \A n2 \in TierInteractions :
                   n2 > n =>
                       TierRank(calculatePerformanceTier(e, p, n2)) >= rank

\* a call that returned silver, and is gold with a higher efficiency score,
\* with a higher productivity rate, and with a higher handled count
C29_Witness ==
    /\ tierCall # null /\ tierCall[1].tier = Some("silver")
    /\ LET e == tierCall[1].efficiency
           p == tierCall[1].productivity
           n == tierCall[1].interactions
       IN  /\ \E e2 \in TierEfficiencies :
                  Gt(Num(e2), e) /\ calculatePerformanceTier(Num(e2), p, n) = "gold"
           /\ \E p2 \in TierProductivities :
                  Gt(p2, p) /\ calculatePerformanceTier(e, p2, n) = "gold"
           /\ \E n2 \in TierInteractions :
                  n2 > n /\ calculatePerformanceTier(e, p, n2) = "gold"

(***************************************************************************)
(* C30.  Try Again is offered only in the error view (an error and no      *)
(* stored rows); it sets the error and the stored rows to null, so the     *)
(* metrics are null and the dashboard is back in its initial state, the    *)
(* selectors and the sort key as they were.  Cancelling the file dialog    *)
(* changes no state.                                                       *)
(***************************************************************************)
C30_TryAgainResets ==
    [][/\ tryAgain =>
             /\ ErrorView
             /\ error' = null /\ data' = null
             /\ agentMetrics' = null
             /\ UNCHANGED selectors
             /\ Init'
       /\ handleFileUploadNoFile => UNCHANGED vars]_vars

\* the error view, where Try Again is offered and no file input is
C30_Witness ==
    /\ ErrorView
    /\ agentMetrics = null
    /\ ~FileInputEnabled /\ ~MetricsShown
    /\ ENABLED tryAgain
====
